---- MODULE Spec2Model ----
(***************************************************************************)
(* Transformix front-end (frontend/src/App.jsx): the capability registry   *)
(* (App), the capability cards, the Uploader form with its submit handler  *)
(* and the handling of the POST response.                                   *)
(*                                                                          *)
(* JavaScript strings are TLA+ strings; String.prototype.includes, trim,   *)
(* toLowerCase, the filename regular expression and JSON.parse are         *)
(* computed on them with Len, SubSeq, Head, Tail and \o.  An optional      *)
(* value (x?.value, possibly undefined) is <<>> for undefined and <<v>>    *)
(* for a value v.                                                           *)
(***************************************************************************)
EXTENDS Integers, Sequences, FiniteSets, TLC

VARIABLES
    caps,                 \* App state `caps` (useState([]))
    getReq,               \* the axios.get('/api/') promise of the mount effect
    selected,             \* App state `selected`: <<>> is null, <<cap>> a capability
    inst,                 \* number of Uploader instances mounted so far (the current one when open)
    file,                 \* Uploader state `file`
    wmImage,              \* Uploader state `wmImage`
    busy,                 \* Uploader state `busy`
    message,              \* Uploader state `message`
    fields,               \* values of the named text/number/select inputs rendered in the form
    lists,                \* FileLists of the rendered multi-file inputs `files` and `images`
    requests,             \* suspended runs of submit(): awaiting axios.post or data.text()
    submits,              \* number of submit events handled so far
    downloads,            \* names of the downloads triggered by a.click(), in order
    constraintValidation  \* whether the user agent enforces `required` before firing submit

vars == <<caps, getReq, selected, inst, file, wmImage, busy, message, fields,
          lists, requests, submits, downloads, constraintValidation>>

(***************************************************************************)
(* Bounds                                                                   *)
(***************************************************************************)
MaxSubmits == 2
MaxInst == 2

(***************************************************************************)
(* String helpers                                                           *)
(***************************************************************************)
\* String.prototype.includes
Includes(hay, needle) ==
    \E i \in 1..(Len(hay) - Len(needle) + 1) :
        SubSeq(hay, i, i + Len(needle) - 1) = needle

RECURSIVE TrimLeft(_)
TrimLeft(s) == IF Len(s) > 0 /\ Head(s) = " " THEN TrimLeft(Tail(s)) ELSE s

RECURSIVE TrimRight(_)
TrimRight(s) ==
    IF Len(s) > 0 /\ SubSeq(s, Len(s), Len(s)) = " "
    THEN TrimRight(SubSeq(s, 1, Len(s) - 1))
    ELSE s

\* String.prototype.trim
Trim(s) == TrimRight(TrimLeft(s))

\* x?.trim() on an optional value
OptTrim(o) == IF o = <<>> THEN <<>> ELSE <<Trim(o[1])>>

\* JavaScript truthiness of an optional string: undefined and '' are falsy
Truthy(o) == o # <<>> /\ o[1] # ""

OrDefault_Nullish(o, d) == IF o = <<>> THEN d ELSE o[1]

\* `o || d` for an optional string o and a default d already in string form
OrDefault(o, d) == IF Truthy(o) THEN o[1] ELSE d

Digit(d) ==
    CASE d = 0 -> "0" [] d = 1 -> "1" [] d = 2 -> "2" [] d = 3 -> "3"
      [] d = 4 -> "4" [] d = 5 -> "5" [] d = 6 -> "6" [] d = 7 -> "7"
      [] d = 8 -> "8" [] d = 9 -> "9"

\* String(n) for a natural number n, as FormData.append stringifies a number
RECURSIVE NumToStr(_)
NumToStr(n) == IF n < 10 THEN Digit(n) ELSE NumToStr(n \div 10) \o Digit(n % 10)

LowerChar(c) ==
    CASE c = "A" -> "a" [] c = "B" -> "b" [] c = "C" -> "c" [] c = "D" -> "d"
      [] c = "E" -> "e" [] c = "F" -> "f" [] c = "G" -> "g" [] c = "H" -> "h"
      [] c = "I" -> "i" [] c = "J" -> "j" [] c = "K" -> "k" [] c = "L" -> "l"
      [] c = "M" -> "m" [] c = "N" -> "n" [] c = "O" -> "o" [] c = "P" -> "p"
      [] c = "Q" -> "q" [] c = "R" -> "r" [] c = "S" -> "s" [] c = "T" -> "t"
      [] c = "U" -> "u" [] c = "V" -> "v" [] c = "W" -> "w" [] c = "X" -> "x"
      [] c = "Y" -> "y" [] c = "Z" -> "z" [] OTHER -> c

\* String.prototype.toLowerCase (ASCII)
RECURSIVE ToLowerCase(_)
ToLowerCase(s) ==
    IF Len(s) = 0 THEN s ELSE LowerChar(Head(s)) \o ToLowerCase(Tail(s))

\* the longest prefix of s without the character c
RECURSIVE UpTo(_, _)
UpTo(s, c) ==
    IF Len(s) = 0 \/ Head(s) = c THEN "" ELSE Head(s) \o UpTo(Tail(s), c)

(***************************************************************************)
(* Capabilities and the registry                                            *)
(***************************************************************************)
Cap(n, f, t, e) == [name |-> n, from_type |-> f, to_type |-> t, endpoint |-> e]

\* Capability lists the discovery endpoint can deliver (endpoints of README.md)
BasicCapLists ==
    { << Cap("Word to PDF", "docx", "pdf", "/convert/word-to-pdf"),
         Cap("HTML to PDF", "html", "pdf", "/convert/html-to-pdf") >>,
      << Cap("Merge PDF", "pdf", "pdf", "/pdf/merge") >>,
      << Cap("Compress PDF", "pdf", "pdf", "/compress/pdf") >>,
      << Cap("Watermark", "pdf", "pdf", "/pdf/watermark") >> }

ParamCapLists ==
    { << Cap("Compress PDF", "pdf", "pdf", "/compress/pdf") >>,
      << Cap("Split PDF", "pdf", "pdf", "/pdf/split") >>,
      << Cap("Watermark", "pdf", "pdf", "/pdf/watermark") >>,
      << Cap("Page numbers", "pdf", "pdf", "/pdf/page-numbers") >>,
      << Cap("Protect PDF", "pdf", "pdf", "/pdf/protect"),
         Cap("Rotate PDF", "pdf", "pdf", "/pdf/rotate") >>,
      << Cap("Delete pages", "pdf", "pdf", "/pdf/delete-pages"),
         Cap("Reorder pages", "pdf", "pdf", "/pdf/reorder"),
         Cap("Unlock PDF", "pdf", "pdf", "/pdf/unlock") >>,
      << Cap("Merge PDF", "pdf", "pdf", "/pdf/merge"),
         Cap("Images to PDF", "image", "pdf", "/convert/images-to-pdf"),
         Cap("HTML to PDF", "html", "pdf", "/convert/html-to-pdf") >> }

SingleCapLists ==
    { << Cap("Word to PDF", "docx", "pdf", "/convert/word-to-pdf") >> }

\* Capability lists for the primary payload: endpoints of README.md, and
\* endpoints that contain several of /merge, /images-to-pdf and /html-to-pdf
PayloadCapLists ==
    { << Cap("Compress PDF", "pdf", "pdf", "/compress/pdf"),
         Cap("Merge PDF", "pdf", "pdf", "/pdf/merge") >>,
      << Cap("Images to PDF", "image", "pdf", "/convert/images-to-pdf"),
         Cap("Merge images", "image", "pdf", "/convert/images-to-pdf/merge") >>,
      << Cap("HTML to PDF", "html", "pdf", "/convert/html-to-pdf"),
         Cap("Merge HTML", "html", "pdf", "/pdf/merge/html-to-pdf") >> }

\* a capability delivered without a `name`
Unnamed(f, t, e) == [from_type |-> f, to_type |-> t, endpoint |-> e]

\* Capability lists whose names exercise every keyword of iconFor
IconCapLists ==
    { << Cap("Merge and Split", "pdf", "pdf", "/pdf/merge"),
         Cap("Split PDF", "pdf", "pdf", "/pdf/split"),
         Cap("ROTATE PDF", "pdf", "pdf", "/pdf/rotate") >>,
      << Cap("Protect PDF", "pdf", "pdf", "/pdf/protect"),
         Cap("Unlock Word PDF", "pdf", "pdf", "/pdf/unlock"),
         Cap("PDF to JPG", "pdf", "jpg", "/convert/pdf-to-jpg") >>,
      << Cap("Images to PDF", "image", "pdf", "/convert/images-to-pdf"),
         Cap("Compress HTML", "html", "html", "/compress/pdf"),
         Cap("HTML to PDF", "html", "pdf", "/convert/html-to-pdf") >>,
      << Cap("Compress PDF", "pdf", "pdf", "/compress/pdf"),
         Cap("Word to PDF", "docx", "pdf", "/convert/word-to-pdf"),
         Cap("PDF to Word", "pdf", "docx", "/convert/pdf-to-word") >>,
      << Cap("Excel to PDF", "xlsx", "pdf", "/convert/excel-to-pdf"),
         Cap("Word", "docx", "docx", "/convert/word-to-pdf"),
         Cap("", "pptx", "pdf", "/convert/ppt-to-pdf"),
         Unnamed("pdf", "pptx", "/convert/pdf-to-pptx") >> }

\* A JavaScript value held in `caps`: an array of capabilities or something else
Array(items) == [tag |-> "array", items |-> items]
NotArray(t) == [tag |-> t, items |-> <<>>]

\* What a 2xx answer of GET /api/ can carry as r.data
GetPayloads(capLists) ==
    { Array(l) : l \in capLists } \cup { Array(<<>>), NotArray("object"), NotArray("string") }

\* how the GET can settle: a 2xx answer, or a rejection (network error, non-2xx)
GetOutcomes(capLists) ==
    { [kind |-> "ok", data |-> d] : d \in GetPayloads(capLists) }
        \cup { [kind |-> "error", data |-> Array(<<>>)] }

(***************************************************************************)
(* The capability cards                                                     *)
(***************************************************************************)
\* cap.name, undefined when the capability has no name
Name(cap) == IF "name" \in DOMAIN cap THEN << cap.name >> ELSE << >>

iconFor_SplitFirst(cap) ==
    LET n == ToLowerCase(OrDefault(Name(cap), ""))
    IN  IF Includes(n, "split") THEN "Scissors"
        ELSE IF Includes(n, "merge") THEN "FileArchive"
        ELSE IF Includes(n, "rotate") THEN "RotateCw"
        ELSE IF Includes(n, "protect") \/ Includes(n, "unlock") THEN "Shield"
        ELSE IF Includes(n, "jpg") \/ Includes(n, "image") THEN "ImageIcon"
        ELSE IF Includes(n, "html") THEN "LinkIcon"
        ELSE IF Includes(n, "compress") THEN "FileDown"
        ELSE IF Includes(n, "pdf") /\ Includes(n, "word") THEN "FileType"
        ELSE "FileUp"

\* the icon component of a capability, by its lucide-react name
iconFor(cap) ==
    LET n == ToLowerCase(OrDefault(Name(cap), ""))
    IN  IF Includes(n, "merge") THEN "FileArchive"
        ELSE IF Includes(n, "split") THEN "Scissors"
        ELSE IF Includes(n, "rotate") THEN "RotateCw"
        ELSE IF Includes(n, "protect") \/ Includes(n, "unlock") THEN "Shield"
        ELSE IF Includes(n, "jpg") \/ Includes(n, "image") THEN "ImageIcon"
        ELSE IF Includes(n, "html") THEN "LinkIcon"
        ELSE IF Includes(n, "compress") THEN "FileDown"
        ELSE IF Includes(n, "pdf") /\ Includes(n, "word") THEN "FileType"
        ELSE "FileUp"

\* <CapabilityCard cap={cap}/>: const Icon = iconFor(cap)
CapabilityCard(cap) == [cap |-> cap, Icon |-> iconFor(cap)]

(***************************************************************************)
(* The substring tests of the Uploader on selected.endpoint                 *)
(***************************************************************************)
isMerge(ep) == Includes(ep, "/merge")
isHtmlToPdf(ep) == Includes(ep, "/html-to-pdf")
isImagesToPdf(ep) == Includes(ep, "/images-to-pdf")

requiresFile_NoCheck(ep) == FALSE

requiresFile(ep) == ~(isMerge(ep) \/ isHtmlToPdf(ep) \/ isImagesToPdf(ep))

\* the single-file input is rendered (and `required`)
SingleFileRendered(ep) ==
    ~isHtmlToPdf(ep) /\ ~isMerge(ep) /\ ~isImagesToPdf(ep)

\* the multi-file inputs rendered, by their `name`
RenderedLists(ep) ==
    (IF isMerge(ep) THEN {"files"} ELSE {})
        \cup (IF isImagesToPdf(ep) THEN {"images"} ELSE {})

\* the named text, number and select inputs rendered
RenderedFields(ep) ==
    (IF Includes(ep, "/compress") THEN {"quality"} ELSE {})
        \cup (IF Includes(ep, "/split") THEN {"from_page", "to_page"} ELSE {})
        \cup (IF Includes(ep, "/rotate") THEN {"degrees"} ELSE {})
        \cup (IF Includes(ep, "/protect") \/ Includes(ep, "/unlock") THEN {"password"} ELSE {})
        \cup (IF Includes(ep, "/watermark") THEN {"text", "opacity", "size"} ELSE {})
        \cup (IF Includes(ep, "/page-numbers")
              THEN {"start", "nsize", "format", "position"} ELSE {})
        \cup (IF Includes(ep, "/delete-pages") THEN {"pages"} ELSE {})
        \cup (IF Includes(ep, "/reorder") THEN {"order"} ELSE {})

\* the watermark image input is rendered
WmImageRendered(ep) == Includes(ep, "/watermark")

\* defaultValue attributes of the number inputs
QualityDefaultValue == 85
FromPageDefaultValue == 1
DegreesDefaultValue == 90
SizeDefaultValue == 48
StartDefaultValue == 1
NsizeDefaultValue == 10

\* the value a freshly rendered input holds
DefaultValue(n) ==
    CASE n = "quality" -> NumToStr(QualityDefaultValue)
      [] n = "from_page" -> NumToStr(FromPageDefaultValue)
      [] n = "degrees" -> NumToStr(DegreesDefaultValue)
      [] n = "opacity" -> "0.2"
      [] n = "size" -> NumToStr(SizeDefaultValue)
      [] n = "start" -> NumToStr(StartDefaultValue)
      [] n = "nsize" -> NumToStr(NsizeDefaultValue)
      [] n = "format" -> "{n}"
      [] n = "position" -> "bottom-right"
      [] OTHER -> ""

\* what the user can put into an input
InputValues(n) ==
    CASE n = "position" -> {"bottom-right", "top-left"}
      [] n = "format" -> {"{n}", ""}
      [] n = "from_page" -> {"1", "", "3"}
      [] n = "to_page" -> {"", "7"}
      [] n = "password" -> {"", "pw"}
      [] n = "text" -> {"", "Gizli"}
      [] n = "pages" -> {"", "1,3,5-7"}
      [] n = "order" -> {"", "3,1,2"}
      [] n = "opacity" -> {"0.2", ""}
      [] n = "quality" -> {"85", "", "7"}
      [] OTHER -> {DefaultValue(n), ""}

NoFile == "null"
Files == {"a.pdf"}
FileLists == { <<>>, <<"a.pdf", "b.pdf">> }

\* e.target[n]?.value
Value(flds, n) == IF n \in DOMAIN flds THEN <<flds[n]>> ELSE <<>>

(***************************************************************************)
(* The multipart body built by submit()                                     *)
(***************************************************************************)
Entry(k, v) == [k |-> k, v |-> v]

\* form.append(k, v) when c holds
AppendIf(c, k, v) == IF c THEN << Entry(k, v) >> ELSE << >>

\* for (const f of list) form.append('files', f)
FilesEntries(list) == [i \in 1..Len(list) |-> Entry("files", list[i])]

PrimaryPayload_ImagesFirst(ep, f, ls, flds) ==
    IF isHtmlToPdf(ep)
    THEN LET url == OptTrim(Value(flds, "url"))
             html == Value(flds, "html")
         IN  AppendIf(Truthy(url), "url", OrDefault(url, ""))
                 \o AppendIf(Truthy(html), "html", OrDefault(html, ""))
    ELSE IF isImagesToPdf(ep) THEN FilesEntries(ls["images"])
    ELSE IF isMerge(ep) THEN FilesEntries(ls["files"])
    ELSE << Entry("file", f) >>

\* the primary payload: the if / else-if chain on the endpoint
PrimaryPayload(ep, f, ls, flds) ==
    IF isHtmlToPdf(ep)
    THEN LET url == OptTrim(Value(flds, "url"))
             html == Value(flds, "html")
         IN  AppendIf(Truthy(url), "url", OrDefault(url, ""))
                 \o AppendIf(Truthy(html), "html", OrDefault(html, ""))
    ELSE IF isMerge(ep) THEN FilesEntries(ls["files"])
    ELSE IF isImagesToPdf(ep) THEN FilesEntries(ls["images"])
    ELSE << Entry("file", f) >>

\* the `|| default` fallbacks of the extra parameters
QualityFallback == 85
FromPageFallback == 1
DegreesFallback == 90
WatermarkSizeFallback == 48
StartFallback == 1
PageNumberSizeFallback == 10

\* the extra parameters, one independent substring test per rule
ExtraParams(ep, flds, wm) ==
    AppendIf(Includes(ep, "/compress"), "quality",
             OrDefault(Value(flds, "quality"), NumToStr(QualityFallback)))
    \o AppendIf(Includes(ep, "/split"), "from_page",
                OrDefault(Value(flds, "from_page"), NumToStr(FromPageFallback)))
    \o AppendIf(Includes(ep, "/split"), "to_page",
                OrDefault(Value(flds, "to_page"), ""))
    \o AppendIf(Includes(ep, "/rotate"), "degrees",
                OrDefault(Value(flds, "degrees"), NumToStr(DegreesFallback)))
    \o AppendIf(Includes(ep, "/protect") \/ Includes(ep, "/unlock"), "password",
                OrDefault(Value(flds, "password"), ""))
    \o AppendIf(Includes(ep, "/watermark") /\ Truthy(Value(flds, "text")), "text",
                OrDefault(Value(flds, "text"), ""))
    \o AppendIf(Includes(ep, "/watermark") /\ wm # NoFile, "image", wm)
    \o AppendIf(Includes(ep, "/watermark"), "opacity",
                OrDefault(Value(flds, "opacity"), "0.2"))
    \o AppendIf(Includes(ep, "/watermark"), "size",
                OrDefault(Value(flds, "size"), NumToStr(WatermarkSizeFallback)))
    \o AppendIf(Includes(ep, "/page-numbers"), "start",
                OrDefault(Value(flds, "start"), NumToStr(StartFallback)))
    \o AppendIf(Includes(ep, "/page-numbers"), "format",
                OrDefault(Value(flds, "format"), "{n}"))
    \o AppendIf(Includes(ep, "/page-numbers"), "position",
                OrDefault(Value(flds, "position"), "bottom-right"))
    \o AppendIf(Includes(ep, "/page-numbers"), "size",
                OrDefault(Value(flds, "nsize"), NumToStr(PageNumberSizeFallback)))
    \o AppendIf(Includes(ep, "/delete-pages"), "pages",
                OrDefault(Value(flds, "pages"), ""))
    \o AppendIf(Includes(ep, "/reorder"), "order",
                OrDefault(Value(flds, "order"), ""))

\* the html-to-pdf check inside the try block: neither url nor html given
HtmlInputsEmpty(flds) ==
    ~Truthy(OptTrim(Value(flds, "url"))) /\ ~Truthy(Value(flds, "html"))

\* the `required` attributes of the rendered inputs are all satisfied
RequiredSatisfied(ep, f, ls, flds) ==
    /\ SingleFileRendered(ep) => f # NoFile
    /\ \A n \in RenderedLists(ep) : ls[n] # << >>
    /\ "password" \in RenderedFields(ep) => flds["password"] # ""

\* the message literals, their Turkish letters written in ASCII
FileMsg == "Lutfen dosya secin"
UrlMsg == "URL veya HTML icerigi girin"
SuccessMsg == "Indirme basladi"
ErrPrefix == "Hata: "

(***************************************************************************)
(* Responses of the POST and what the handler makes of them                 *)
(***************************************************************************)
Timeout == 600000

NoRes == [kind |-> "none", header |-> << >>, data |-> "", errmsg |-> ""]

Headers ==
    { << >>, << "attachment; filename=report.pdf" >>,
      << "attachment; FileName=out.zip; size=3" >>, << "inline" >> }

BodyTexts ==
    { "{\"detail\":\"bad password\"}", "{\"detail\":\"\"}", "{\"error\":\"boom\"}",
      "{}", "null", "Internal Server Error", "" }

StatusMsg == "Request failed with status code 400"

PostOutcomes ==
    { [kind |-> "ok", header |-> h, data |-> "", errmsg |-> ""] : h \in Headers }
    \cup { [kind |-> "blob", header |-> << >>, data |-> t, errmsg |-> StatusMsg] :
             t \in BodyTexts }
    \cup { [kind |-> "unreadable", header |-> << >>, data |-> "", errmsg |-> StatusMsg] }
    \cup { [kind |-> "nonblob", header |-> << >>, data |-> t, errmsg |-> StatusMsg] :
             t \in {"Bad Gateway", ""} }
    \cup { [kind |-> "noresponse", header |-> << >>, data |-> "", errmsg |-> m] :
             m \in {"Network Error", "timeout of " \o NumToStr(Timeout) \o "ms exceeded"} }

\* answers of every kind
BasicPostOutcomes ==
    { o \in PostOutcomes :
        \/ o.kind = "ok" /\ o.header \in { << >>, << "attachment; filename=report.pdf" >> }
        \/ o.kind = "blob" /\ o.data \in { "{\"detail\":\"bad password\"}", "Internal Server Error" }
        \/ o.kind = "unreadable"
        \/ o.kind = "nonblob" /\ o.data = "Bad Gateway"
        \/ o.kind = "noresponse" /\ o.errmsg # "Network Error" }

\* one success and one failure
FormPostOutcomes ==
    { o \in PostOutcomes :
        \/ o.kind = "ok" /\ o.header = << >>
        \/ o.kind = "blob" /\ o.data = "Internal Server Error" }

\* content-disposition headers of a 2xx answer: absent, empty, with a
\* filename, with further parameters, with a quoted filename, with an empty
\* filename, and with the extended parameter filename*= only
DispositionHeaders ==
    Headers \cup
    { << "" >>, << "attachment; filename=\"my report.pdf\"" >>,
      << "attachment; filename=" >>, << "attachment; filename=;filename=x.pdf" >>,
      << "attachment; filename*=UTF-8''r.pdf" >> }

\* a 2xx answer with each of these headers, and one failure
DownloadOutcomes ==
    { [kind |-> "ok", header |-> h, data |-> "", errmsg |-> ""] : h \in DispositionHeaders }
    \cup { o \in PostOutcomes : o.kind = "blob" /\ o.data = "Internal Server Error" }

\* /filename=([^;]+)/i.exec(h): the leftmost position where the pattern matches
FilenameMatches(h) ==
    { i \in 1..Len(h) :
        /\ i + 9 <= Len(h)
        /\ ToLowerCase(SubSeq(h, i, i + 8)) = "filename="
        /\ SubSeq(h, i + 9, i + 9) # ";" }

DownloadName_WholeRest(header) ==
    LET h == OrDefault(header, "")
        m == FilenameMatches(h)
    IN  IF m = {} THEN "download"
        ELSE LET i == CHOOSE k \in m : \A l \in m : k <= l
             IN  SubSeq(h, i + 9, Len(h))

\* const name = match ? match[1] : 'download'
DownloadName(header) ==
    LET h == OrDefault(header, "")
        m == FilenameMatches(h)
    IN  IF m = {} THEN "download"
        ELSE LET i == CHOOSE k \in m : \A l \in m : k <= l
             IN  UpTo(SubSeq(h, i + 9, Len(h)), ";")

NoQuote(s) == ~Includes(s, "\"") /\ ~Includes(s, "\\")

\* the texts of the form {"K":"V"}: the positions of the separator ":"
MemberSplits(inner) ==
    { i \in 1..(Len(inner) - 2) :
        /\ SubSeq(inner, i, i + 2) = "\":\""
        /\ NoQuote(SubSeq(inner, 1, i - 1))
        /\ NoQuote(SubSeq(inner, i + 3, Len(inner))) }

\* JSON.parse on null, {} and objects with one string member; it throws
\* (ok = FALSE) on every other text
JSONParse(text) ==
    IF text = "null" THEN [ok |-> TRUE, isNull |-> TRUE, detail |-> << >>]
    ELSE IF text = "{}" THEN [ok |-> TRUE, isNull |-> FALSE, detail |-> << >>]
    ELSE IF /\ Len(text) >= 7
            /\ SubSeq(text, 1, 2) = "{\""
            /\ SubSeq(text, Len(text) - 1, Len(text)) = "\"}"
            /\ MemberSplits(SubSeq(text, 3, Len(text) - 2)) # {}
    THEN LET inner == SubSeq(text, 3, Len(text) - 2)
             i == CHOOSE k \in MemberSplits(inner) : TRUE
             key == SubSeq(inner, 1, i - 1)
             val == SubSeq(inner, i + 3, Len(inner))
         IN  [ok |-> TRUE, isNull |-> FALSE,
              detail |-> IF key = "detail" THEN << val >> ELSE << >>]
    ELSE [ok |-> FALSE, isNull |-> FALSE, detail |-> << >>]

BlobMessage_TextFirst(text) == ErrPrefix \o text

\* the inner try/catch: 'Hata: ' + (j.detail || text), or 'Hata: ' + text when
\* JSON.parse throws or j is null (j.detail then throws)
BlobMessage(text) ==
    LET j == JSONParse(text)
    IN  IF j.ok /\ ~j.isNull
        THEN ErrPrefix \o OrDefault(j.detail, text)
        ELSE ErrPrefix \o text

\* the message after `await err.response.data.text()` settled
TextMessage(res) ==
    IF res.kind = "unreadable" THEN ErrPrefix \o res.errmsg ELSE BlobMessage(res.data)

\* 'Hata: ' + (err.response?.data || err.message)
PlainMessage(res) ==
    ErrPrefix \o (IF res.kind = "nonblob" /\ res.data # "" THEN res.data ELSE res.errmsg)

(***************************************************************************)
(* State machine                                                            *)
(***************************************************************************)
NoGetRes == [kind |-> "none", data |-> Array(<< >>)]

\* App is mounted: caps = [], selected = null, and the effect has issued the GET
Init ==
    /\ caps = Array(<< >>)
    /\ getReq = [pc |-> "get", res |-> NoGetRes]
    /\ selected = << >>
    /\ inst = 0
    /\ file = NoFile
    /\ wmImage = NoFile
    /\ busy = FALSE
    /\ message = ""
    /\ fields = [n \in {} |-> ""]
    /\ lists = [n \in {} |-> << >>]
    /\ requests = {}
    /\ submits = 0
    /\ downloads = << >>
    /\ constraintValidation \in BOOLEAN

UploaderVars == <<file, wmImage, busy, message, fields, lists>>

\* axios.get('/api/').then(r => setCaps(r.data)).catch(() => setCaps([]))
GetSettled(o) ==
    /\ getReq.pc = "get"
    /\ getReq' = [pc |-> "done", res |-> o]
    /\ caps' = IF o.kind = "ok" THEN o.data ELSE Array(<< >>)
    /\ UNCHANGED <<selected, inst, UploaderVars, requests, submits, downloads,
                   constraintValidation>>

\* the cards rendered by caps.map (caps.map throws when caps is no array)
Cards == IF caps.tag = "array" THEN { caps.items[i] : i \in 1..Len(caps.items) } ELSE {}

\* caps.map(c => <CapabilityCard .../>): the cards in the order of caps
RenderedCards ==
    IF caps.tag = "array"
    THEN [i \in 1..Len(caps.items) |-> CapabilityCard(caps.items[i])]
    ELSE << >>

SelectKeepsDraft(c) ==
    /\ selected = << >>
    /\ c \in Cards
    /\ inst < MaxInst
    /\ selected' = << c >>
    /\ inst' = inst + 1
    /\ fields' = [n \in RenderedFields(c.endpoint) |->
                    IF n \in DOMAIN fields THEN fields[n] ELSE DefaultValue(n)]
    /\ lists' = [n \in RenderedLists(c.endpoint) |->
                    IF n \in DOMAIN lists THEN lists[n] ELSE << >>]
    /\ UNCHANGED <<file, wmImage, busy, message>>
    /\ UNCHANGED <<caps, getReq, requests, submits, downloads, constraintValidation>>

\* a card is clicked: setSelected(cap) mounts a new Uploader, whose useState
\* initialisers and freshly rendered inputs give the draft.  The open form is a
\* full-screen overlay above the cards, so a card is clicked only when no form
\* is open.
Select(c) ==
    /\ selected = << >>
    /\ c \in Cards
    /\ inst < MaxInst
    /\ selected' = << c >>
    /\ inst' = inst + 1
    /\ file' = NoFile
    /\ wmImage' = NoFile
    /\ busy' = FALSE
    /\ message' = ""
    /\ fields' = [n \in RenderedFields(c.endpoint) |-> DefaultValue(n)]
    /\ lists' = [n \in RenderedLists(c.endpoint) |-> << >>]
    /\ UNCHANGED <<caps, getReq, requests, submits, downloads, constraintValidation>>

\* onClose: setSelected(null) unmounts the Uploader
Close ==
    /\ selected # << >>
    /\ selected' = << >>
    /\ UNCHANGED <<caps, getReq, inst, UploaderVars, requests, submits, downloads,
                   constraintValidation>>

\* onChange of the single-file input: setFile(e.target.files?.[0] || null)
PickFile(f) ==
    /\ selected # << >>
    /\ SingleFileRendered(selected[1].endpoint)
    /\ file' = f
    /\ UNCHANGED <<caps, getReq, selected, inst, wmImage, busy, message, fields, lists,
                   requests, submits, downloads, constraintValidation>>

\* onChange of the watermark image input: setWmImage(e.target.files?.[0] || null)
PickWmImage(f) ==
    /\ selected # << >>
    /\ WmImageRendered(selected[1].endpoint)
    /\ wmImage' = f
    /\ UNCHANGED <<caps, getReq, selected, inst, file, busy, message, fields, lists,
                   requests, submits, downloads, constraintValidation>>

\* the user chooses the files of a multi-file input
PickFiles(n, l) ==
    /\ selected # << >>
    /\ n \in DOMAIN lists
    /\ lists' = [lists EXCEPT ![n] = l]
    /\ UNCHANGED <<caps, getReq, selected, inst, file, wmImage, busy, message, fields,
                   requests, submits, downloads, constraintValidation>>

\* the user edits a named input
EditField(n, v) ==
    /\ selected # << >>
    /\ n \in DOMAIN fields
    /\ v \in InputValues(n)
    /\ fields' = [fields EXCEPT ![n] = v]
    /\ UNCHANGED <<caps, getReq, selected, inst, file, wmImage, busy, message, lists,
                   requests, submits, downloads, constraintValidation>>

SubmitEnabled_Always == TRUE

\* <button disabled={busy}>: the form's only submit button
SubmitEnabled == ~busy

\* the submit handler up to its first await (or its early return)
Submit ==
    /\ selected # << >>
    /\ SubmitEnabled
    /\ submits < MaxSubmits
    /\ constraintValidation =>
           RequiredSatisfied(selected[1].endpoint, file, lists, fields)
    /\ submits' = submits + 1
    /\ LET ep == selected[1].endpoint
       IN  IF requiresFile(ep) /\ file = NoFile
           THEN /\ message' = FileMsg
                /\ UNCHANGED <<busy, requests>>
           ELSE IF isHtmlToPdf(ep) /\ HtmlInputsEmpty(fields)
           THEN /\ message' = UrlMsg
                /\ busy' = FALSE
                /\ UNCHANGED requests
           ELSE /\ busy' = TRUE
                /\ message' = ""
                /\ requests' = requests \cup
                     { [id |-> submits + 1, inst |-> inst, url |-> "/api" \o ep,
                        form |-> PrimaryPayload(ep, file, lists, fields)
                                     \o ExtraParams(ep, fields, wmImage),
                        pc |-> "post", res |-> NoRes] }
    /\ UNCHANGED <<caps, getReq, selected, inst, file, wmImage, fields, lists,
                   downloads, constraintValidation>>

\* the network answers the POST: a 2xx response, an error response, or no
\* response at all (network error, timeout).  The request body has left the
\* client; what is in flight from here on is the answer.
Respond(r, o) ==
    /\ r \in requests
    /\ r.pc = "post"
    /\ r.res = NoRes
    /\ requests' = (requests \ {r}) \cup { [r EXCEPT !.res = o, !.form = << >>] }
    /\ UNCHANGED <<caps, getReq, selected, inst, UploaderVars, submits, downloads,
                   constraintValidation>>

\* the Uploader instance a run of submit() belongs to is still mounted
Mounted(r) == selected # << >> /\ inst = r.inst

Finish_NoMessage(r, m) ==
    IF Mounted(r)
    THEN busy' = FALSE /\ UNCHANGED message
    ELSE UNCHANGED <<message, busy>>

\* setMessage(m) followed by the finally block's setBusy(false); a state
\* update of an unmounted component is dropped
Finish(r, m) ==
    IF Mounted(r)
    THEN message' = m /\ busy' = FALSE
    ELSE UNCHANGED <<message, busy>>

\* submit() resumes after `await axios.post`
Resume(r) ==
    /\ r \in requests
    /\ r.pc = "post"
    /\ r.res # NoRes
    /\ IF r.res.kind = "ok"
       THEN /\ downloads' = Append(downloads, DownloadName(r.res.header))
            /\ Finish(r, SuccessMsg)
            /\ requests' = requests \ {r}
       ELSE IF r.res.kind \in {"blob", "unreadable"}
       THEN /\ requests' = (requests \ {r}) \cup { [r EXCEPT !.pc = "text"] }
            /\ UNCHANGED <<downloads, message, busy>>
       ELSE /\ Finish(r, PlainMessage(r.res))
            /\ requests' = requests \ {r}
            /\ UNCHANGED downloads
    /\ UNCHANGED <<caps, getReq, selected, inst, file, wmImage, fields, lists, submits,
                   constraintValidation>>

\* submit() resumes after `await err.response.data.text()`
ResumeText(r) ==
    /\ r \in requests
    /\ r.pc = "text"
    /\ Finish(r, TextMessage(r.res))
    /\ requests' = requests \ {r}
    /\ UNCHANGED <<caps, getReq, selected, inst, file, wmImage, fields, lists, submits,
                   downloads, constraintValidation>>

\* the inputs of the environment: what the discovery endpoint and the
\* conversion endpoints answer, and which inputs the user edits
NextOver(getOutcomes, postOutcomes, edited) ==
    \/ \E o \in getOutcomes : GetSettled(o)
    \/ \E c \in Cards : Select(c)
    \/ Close
    \/ \E f \in Files \cup {NoFile} : PickFile(f)
    \/ \E f \in Files \cup {NoFile} : PickWmImage(f)
    \/ \E n \in DOMAIN lists, l \in FileLists : PickFiles(n, l)
    \/ \E n \in DOMAIN fields \cap edited : \E v \in InputValues(n) : EditField(n, v)
    \/ Submit
    \/ \E r \in requests, o \in postOutcomes : Respond(r, o)
    \/ \E r \in requests : Resume(r)
    \/ \E r \in requests : ResumeText(r)

FieldNames ==
    {"quality", "from_page", "to_page", "degrees", "password", "text", "opacity", "size",
     "start", "nsize", "format", "position", "pages", "order"}

\* the program over the basic capabilities and answers of every kind
Next == NextOver(GetOutcomes(BasicCapLists), BasicPostOutcomes, {"quality"})

Spec == Init /\ [][Next]_vars

\* the program over the capabilities with extra parameters, every input edited
NextForm == NextOver(GetOutcomes(ParamCapLists), FormPostOutcomes, FieldNames)

SpecForm == Init /\ [][NextForm]_vars

\* the program over a capability that takes a single file and no parameters
\* (no other input is rendered), with every answer of PostOutcomes
NextTransfer ==
    \/ \E o \in GetOutcomes(SingleCapLists) : GetSettled(o)
    \/ \E c \in Cards : Select(c)
    \/ Close
    \/ \E f \in Files \cup {NoFile} : PickFile(f)
    \/ Submit
    \/ \E r \in requests, o \in PostOutcomes : Respond(r, o)
    \/ \E r \in requests : Resume(r)
    \/ \E r \in requests : ResumeText(r)

SpecTransfer == Init /\ [][NextTransfer]_vars

\* the program over a capability that takes a single file, with a 2xx answer
\* for every content-disposition header of DispositionHeaders
NextDownload ==
    \/ \E o \in GetOutcomes(SingleCapLists) : GetSettled(o)
    \/ \E c \in Cards : Select(c)
    \/ Close
    \/ \E f \in Files \cup {NoFile} : PickFile(f)
    \/ Submit
    \/ \E r \in requests, o \in DownloadOutcomes : Respond(r, o)
    \/ \E r \in requests : Resume(r)
    \/ \E r \in requests : ResumeText(r)

SpecDownload == Init /\ [][NextDownload]_vars

\* the program over capabilities of every primary payload, some of them
\* matching several of the substring tests; the inputs other than the file
\* inputs are left as rendered
NextPayload ==
    \/ \E o \in GetOutcomes(PayloadCapLists) : GetSettled(o)
    \/ \E c \in Cards : Select(c)
    \/ Close
    \/ \E f \in Files \cup {NoFile} : PickFile(f)
    \/ \E n \in DOMAIN lists, l \in FileLists : PickFiles(n, l)
    \/ Submit
    \/ \E r \in requests, o \in FormPostOutcomes : Respond(r, o)
    \/ \E r \in requests : Resume(r)
    \/ \E r \in requests : ResumeText(r)

SpecPayload == Init /\ [][NextPayload]_vars

\* the cards over capabilities named after every icon keyword: the user opens
\* and closes the forms and chooses files, and submits nothing
NextIcon ==
    \/ \E o \in GetOutcomes(IconCapLists) : GetSettled(o)
    \/ \E c \in Cards : Select(c)
    \/ Close
    \/ \E f \in Files \cup {NoFile} : PickFile(f)
    \/ \E n \in DOMAIN lists, l \in FileLists : PickFiles(n, l)

SpecIcon == Init /\ [][NextIcon]_vars

(***************************************************************************)
(* Properties                                                               *)
(***************************************************************************)
HasEntry(form, k, v) == \E i \in 1..Len(form) : form[i] = Entry(k, v)
HasKey(form, k) == \E i \in 1..Len(form) : form[i].k = k

\* this step is a run of the submit handler
SubmitStep == submits' = submits + 1 /\ selected # << >>

\* the requests this step dispatches
Dispatched == { q \in requests' : q.res = NoRes /\ q \notin requests }

\* this step is the last one of the run r of submit()
Finished(r) == r \in requests /\ \A q \in requests' : q.id # r.id

IsError(m) == Len(m) >= Len(ErrPrefix) /\ SubSeq(m, 1, Len(ErrPrefix)) = ErrPrefix

NoPrimaryInput(ep) ==
    ~Includes(ep, "/merge") /\ ~Includes(ep, "/images-to-pdf") /\ ~Includes(ep, "/html-to-pdf")

\* C1: a submit with no file selected for a capability outside /merge,
\* /images-to-pdf and /html-to-pdf, and a submit with url and html both empty
\* for an /html-to-pdf capability, issues no POST, sets the fixed validation
\* message and leaves the form open with busy = false.
LocalValidationShortCircuits ==
    [][ SubmitStep =>
          LET ep == selected[1].endpoint
          IN  /\ (NoPrimaryInput(ep) /\ file = NoFile) =>
                    /\ requests' = requests
                    /\ message' = FileMsg
                    /\ busy' = FALSE
                    /\ selected' = selected
              /\ (Includes(ep, "/html-to-pdf")
                    /\ ~Truthy(Value(fields, "url")) /\ ~Truthy(Value(fields, "html"))) =>
                    /\ requests' = requests
                    /\ message' = UrlMsg
                    /\ busy' = FALSE
                    /\ selected' = selected ]_vars

LocalValidationSeen ==
    /\ selected # << >>
    /\ NoPrimaryInput(selected[1].endpoint)
    /\ file = NoFile
    /\ message = FileMsg
    /\ ~busy
    /\ requests = {}
    /\ submits > 0

\* C2: within one Uploader instance at most one POST is outstanding at any time.
OnePostOutstandingPerForm ==
    \A r1, r2 \in requests :
        (r1.inst = r2.inst /\ r1.res = NoRes /\ r2.res = NoRes) => r1 = r2

SecondSubmissionOutstanding ==
    /\ selected # << >>
    /\ inst = 1
    /\ busy
    /\ \E r \in requests : r.inst = 1 /\ r.id = 2 /\ r.res = NoRes

\* C3: closing the form does not cancel the request in flight, and an answer
\* that arrives after the close shows no message and triggers no download.
LateAnswerHasNoEffect ==
    [][ /\ (selected # << >> /\ selected' = << >>) => requests' = requests
        /\ \A r \in requests :
             (~Mounted(r) /\ r \notin requests') =>
                 (downloads' = downloads /\ message' = message /\ busy' = busy) ]_vars

\* C4: an /html-to-pdf capability renders no single-file input and provides
\* the url and html inputs, so that a POST carrying url or html can be sent.
HtmlToPdfInputsProvided ==
    (selected # << >> /\ Includes(selected[1].endpoint, "/html-to-pdf")) =>
        /\ ~SingleFileRendered(selected[1].endpoint)
        /\ {"url", "html"} \subseteq DOMAIN fields

\* C5, as stated: every dispatched submission ends with the download and the
\* success acknowledgment shown, or with no download and an error message shown.
EveryDispatchEndsShown ==
    [][ \A r \in requests :
          Finished(r) =>
              /\ Mounted(r)
              /\ \/ Len(downloads') = Len(downloads) + 1 /\ message' = SuccessMsg
                 \/ downloads' = downloads /\ IsError(message') ]_vars

\* C5, amended: a dispatched submission ends exactly once; a 2xx answer
\* triggers one download and every failure (error response, network error,
\* timeout) none; if the form instance is still open it then shows the success
\* acknowledgment, respectively one error message, with busy = false, and if it
\* was closed nothing is shown.  A submit dispatches at most one POST and no
\* POST is dispatched by any other step.
EveryDispatchEndsOnce ==
    [][ /\ \A r \in requests :
             Finished(r) =>
                 /\ (r.res.kind = "ok") => Len(downloads') = Len(downloads) + 1
                 /\ (r.res.kind # "ok") => downloads' = downloads
                 /\ Mounted(r) =>
                       /\ busy' = FALSE
                       /\ (r.res.kind = "ok") => message' = SuccessMsg
                       /\ (r.res.kind # "ok") => IsError(message')
                 /\ ~Mounted(r) => (message' = message /\ busy' = busy)
        /\ Cardinality(Dispatched) <= 1
        /\ Dispatched # {} => SubmitStep
        /\ (\A r \in requests : ~Finished(r)) => downloads' = downloads ]_vars

SuccessAcknowledged ==
    /\ selected # << >>
    /\ message = SuccessMsg
    /\ ~busy
    /\ Len(downloads) = 1
    /\ requests = {}

\* C6: opening the form after a close starts from a fresh draft: no file, no
\* watermark image, busy = false, no message, every input at its default.
ReopenStartsFresh ==
    [][ (selected = << >> /\ selected' # << >>) =>
          /\ file' = NoFile
          /\ wmImage' = NoFile
          /\ busy' = FALSE
          /\ message' = ""
          /\ DOMAIN fields' = RenderedFields(selected'[1].endpoint)
          /\ \A n \in DOMAIN fields' : fields'[n] = DefaultValue(n)
          /\ \A n \in DOMAIN lists' : lists'[n] = << >> ]_vars

ReopenedAfterSubmission ==
    /\ selected # << >>
    /\ inst = 2
    /\ file = NoFile
    /\ message = ""
    /\ ~busy
    /\ \E r \in requests : r.inst = 1 /\ HasEntry(r.form, "file", "a.pdf")

\* the JSON text of an object whose only member is `detail`
JsonDetail(d) == "{\"detail\":\"" \o d \o "\"}"

KnownDetails == {"bad password"}

RegistryStoresSequenceOrEmpty ==
    /\ getReq.pc = "get" => caps = Array(<< >>)
    /\ getReq.pc = "done" =>
          caps = IF getReq.res.kind = "ok" /\ getReq.res.data.tag = "array"
                 THEN getReq.res.data
                 ELSE Array(<< >>)

\* C9: for a /merge or /images-to-pdf capability a submit with zero files
\* selected issues no POST.
NoPostWithoutFiles ==
    [][ ( /\ SubmitStep
          /\ \/ Includes(selected[1].endpoint, "/merge")
             \/ Includes(selected[1].endpoint, "/images-to-pdf")
          /\ \A n \in DOMAIN lists : lists[n] = << >> ) =>
            requests' = requests ]_vars

\* the names of the extra fields and the substring rule of each
ExtraFieldNames ==
    {"quality", "from_page", "to_page", "degrees", "password", "text", "image", "opacity",
     "size", "start", "format", "position", "pages", "order"}

RuleMatches(k, ep) ==
    CASE k = "quality" -> Includes(ep, "/compress")
      [] k \in {"from_page", "to_page"} -> Includes(ep, "/split")
      [] k = "degrees" -> Includes(ep, "/rotate")
      [] k = "password" -> Includes(ep, "/protect") \/ Includes(ep, "/unlock")
      [] k \in {"text", "image", "opacity"} -> Includes(ep, "/watermark")
      [] k = "size" -> Includes(ep, "/watermark") \/ Includes(ep, "/page-numbers")
      [] k \in {"start", "format", "position"} -> Includes(ep, "/page-numbers")
      [] k = "pages" -> Includes(ep, "/delete-pages")
      [] k = "order" -> Includes(ep, "/reorder")

\* the defaults of quality, from_page and to_page in a dispatched body
DefaultsSubmitted(form, ep) ==
    /\ (Includes(ep, "/compress") /\ fields["quality"] \in {"85", ""}) =>
          HasEntry(form, "quality", "85")
    /\ Includes(ep, "/split") =>
          /\ HasEntry(form, "from_page",
                      IF fields["from_page"] = "" THEN "1" ELSE fields["from_page"])
          /\ HasEntry(form, "to_page", fields["to_page"])

\* C10, as stated: a dispatched body carries quality=85 when quality is left
\* at its default or cleared, the given from_page (1 when blank) and the given
\* to_page (empty when blank), and an extra field if and only if its substring
\* rule matches the endpoint.
ExtraFieldsIffRuleMatches ==
    [][ \A q \in Dispatched :
          LET ep == selected[1].endpoint
          IN  /\ DefaultsSubmitted(q.form, ep)
              /\ \A k \in ExtraFieldNames : HasKey(q.form, k) <=> RuleMatches(k, ep) ]_vars

\* C10, amended: as stated, except that the optional watermark fields `text`
\* and `image` are appended only when the rule matches and a text was entered,
\* respectively a watermark image was selected.
ExtraFieldsFollowRules ==
    [][ \A q \in Dispatched :
          LET ep == selected[1].endpoint
          IN  /\ DefaultsSubmitted(q.form, ep)
              /\ \A k \in ExtraFieldNames \ {"text", "image"} :
                    HasKey(q.form, k) <=> RuleMatches(k, ep)
              /\ HasKey(q.form, "text") <=>
                    (RuleMatches("text", ep) /\ fields["text"] # "")
              /\ HasKey(q.form, "image") <=>
                    (RuleMatches("image", ep) /\ wmImage # NoFile) ]_vars

ClearedQualitySubmitted ==
    /\ selected # << >>
    /\ "quality" \in DOMAIN fields
    /\ fields["quality"] = ""
    /\ \E r \in requests :
          Mounted(r) /\ r.res = NoRes /\ HasEntry(r.form, "quality", "85")

\* the rules of the icon selection in their order: a rule matches when, for
\* one of its alternatives, every keyword of the alternative occurs
IconRules ==
    << [alts |-> {{"merge"}}, icon |-> "FileArchive"],
       [alts |-> {{"split"}}, icon |-> "Scissors"],
       [alts |-> {{"rotate"}}, icon |-> "RotateCw"],
       [alts |-> {{"protect"}, {"unlock"}}, icon |-> "Shield"],
       [alts |-> {{"image"}, {"jpg"}}, icon |-> "ImageIcon"],
       [alts |-> {{"html"}}, icon |-> "LinkIcon"],
       [alts |-> {{"compress"}}, icon |-> "FileDown"],
       [alts |-> {{"pdf", "word"}}, icon |-> "FileType"] >>

DefaultIcon == "FileUp"

\* the rules that match the lower-cased name n
MatchingRules(n) ==
    { i \in DOMAIN IconRules :
        \E alt \in IconRules[i].alts : \A k \in alt : Includes(n, k) }

\* C11: the icon of every rendered card is that of the earliest rule, in the
\* order merge, split, rotate, protect/unlock, image/jpg, html, compress,
\* pdf-and-word, whose keyword occurs in the lower-cased name, and the fallback
\* icon exactly when no rule matches (a missing name included); `Merge and
\* Split` gets the merge icon.
IconIsFirstMatch ==
    \A i \in DOMAIN RenderedCards :
        LET card == RenderedCards[i]
            n == IF "name" \in DOMAIN card.cap THEN ToLowerCase(card.cap.name) ELSE ""
            m == MatchingRules(n)
        IN  /\ m # {} =>
                  card.Icon = IconRules[CHOOSE k \in m : \A l \in m : k <= l].icon
            /\ (card.Icon = DefaultIcon) <=> (m = {})
            /\ ("name" \in DOMAIN card.cap /\ card.cap.name = "Merge and Split") =>
                  card.Icon = "FileArchive"

MergeAndSplitCardRendered ==
    /\ getReq.pc = "done"
    /\ \E i \in DOMAIN RenderedCards :
          /\ "name" \in DOMAIN RenderedCards[i].cap
          /\ RenderedCards[i].cap.name = "Merge and Split"
          /\ RenderedCards[i].Icon = "FileArchive"
    /\ \E i \in DOMAIN RenderedCards : RenderedCards[i].Icon = "Scissors"

\* `filename=`, in any case, occurs in h at position i
FilenameAt(h, i) ==
    /\ i + 8 <= Len(h)
    /\ SubSeq(h, i + 8, i + 8) = "="
    /\ ToLowerCase(SubSeq(h, i, i + 7)) = "filename"

\* v is the value of the filename= token of h: it follows an occurrence of
\* `filename=`, is not empty, holds no `;` and ends at the first `;` or at
\* the end of h, and no occurrence further left is followed by a value
IsFilenameToken(h, v) ==
    \E i \in 1..Len(h) :
        /\ FilenameAt(h, i)
        /\ Len(v) > 0
        /\ i + 8 + Len(v) <= Len(h)
        /\ SubSeq(h, i + 9, i + 8 + Len(v)) = v
        /\ ~Includes(v, ";")
        /\ \/ i + 8 + Len(v) = Len(h)
           \/ SubSeq(h, i + 9 + Len(v), i + 9 + Len(v)) = ";"
        /\ \A k \in 1..(i - 1) :
              FilenameAt(h, k) => (k + 9 > Len(h) \/ SubSeq(h, k + 9, k + 9) = ";")

\* h holds a filename= token: an occurrence of `filename=` followed by a value
HasFilenameToken(h) ==
    \E i \in 1..Len(h) :
        FilenameAt(h, i) /\ i + 9 <= Len(h) /\ SubSeq(h, i + 9, i + 9) # ";"

\* C12: after a 2xx answer the name of the download is the value of the
\* filename= token of the content-disposition header, ending at the first `;`
\* (`attachment; filename=report.pdf` gives `report.pdf`), and is `download`
\* when the header is absent or holds no filename= token.
DownloadNameFromHeader ==
    [][ \A r \in requests :
          (Finished(r) /\ r.res.kind = "ok") =>
              LET h == IF r.res.header = << >> THEN "" ELSE r.res.header[1]
                  name == downloads'[Len(downloads')]
              IN  /\ Len(downloads') = Len(downloads) + 1
                  /\ HasFilenameToken(h) => IsFilenameToken(h, name)
                  /\ ~HasFilenameToken(h) => name = "download"
                  /\ h = "attachment; filename=report.pdf" => name = "report.pdf" ]_vars

NamedAndDefaultDownloads ==
    /\ Len(downloads) = 2
    /\ \E i, j \in 1..2 : downloads[i] = "report.pdf" /\ downloads[j] = "download"

PrimaryKeys == {"file", "files", "url", "html"}

IsPrimary(e) == e.k \in PrimaryKeys

\* the entries of a body under the primary keys, in their order
PrimaryEntries(form) == SelectSeq(form, IsPrimary)

\* C13: the primary payload of every dispatched body has one shape, chosen
\* with the precedence html-to-pdf, merge, images-to-pdf, single file: only
\* url / html entries, or only `files` entries (those of the input `files` for
\* merge, those of the input `images` for images-to-pdf), or exactly one `file`
\* entry; no body carries both `file` and `files`, and none carries `file`
\* when the endpoint contains /merge, /images-to-pdf or /html-to-pdf, also
\* when it contains several of them.
PrimaryPayloadHasOneShape ==
    [][ \A q \in Dispatched :
          LET ep == selected[1].endpoint
              prim == PrimaryEntries(q.form)
          IN  /\ IF Includes(ep, "/html-to-pdf")
                 THEN /\ \A i \in DOMAIN prim : prim[i].k \in {"url", "html"}
                      /\ prim # << >>
                 ELSE IF Includes(ep, "/merge")
                 THEN prim = [i \in 1..Len(lists["files"]) |-> Entry("files", lists["files"][i])]
                 ELSE IF Includes(ep, "/images-to-pdf")
                 THEN prim = [i \in 1..Len(lists["images"]) |-> Entry("files", lists["images"][i])]
                 ELSE prim = << Entry("file", file) >> /\ file # NoFile
              /\ ~(HasKey(q.form, "file") /\ HasKey(q.form, "files"))
              /\ ( \/ Includes(ep, "/merge")
                   \/ Includes(ep, "/images-to-pdf")
                   \/ Includes(ep, "/html-to-pdf") ) => ~HasKey(q.form, "file") ]_vars

SeveralMatchesDispatched ==
    /\ selected # << >>
    /\ Includes(selected[1].endpoint, "/merge")
    /\ Includes(selected[1].endpoint, "/images-to-pdf")
    /\ lists["images"] = << >>
    /\ \E r \in requests :
          /\ Mounted(r)
          /\ r.res = NoRes
          /\ r.form = << Entry("files", "a.pdf"), Entry("files", "b.pdf") >>

====
